---- MODULE Spec2Model ----
(***************************************************************************)
(* Model of the rag-chatbot repository: the query pipeline RAGPipeline.ask *)
(* (src/app/rag/pipeline.py) and the ingestion job build_index             *)
(* (src/ingests/ingest.py, loaders.py, chunking.py).                       *)
(*                                                                         *)
(* Strings whose content the code inspects (source names, source ids) are  *)
(* sequences of one-character strings.  A chunk's text is abstracted to    *)
(* what the pipeline reads of it: its stripped length and the page marker  *)
(* the regexes of _extract_page find in its first 400 characters.          *)
(***************************************************************************)
EXTENDS Integers, Sequences, FiniteSets, TLC

VARIABLES
    \* ---- query side (pipeline.py, main.py) ----
    db,         \* self.db: payloads of the chunk index, in docstore order
    doc_db,     \* self.doc_db: payloads of the routing index
    loaded_db,  \* the chunk index as FAISS.load_local returned it (never written)
    pc,         \* position of each request thread inside ask
    req,        \* the question of the running ask: its two rankings
    loc,        \* local variables of the running ask
    resp,       \* the dict ask returned
    \* ---- ingestion side (ingest.py, loaders.py, chunking.py) ----
    ipc,        \* position inside build_index
    corpus,     \* the PDF directory: does it exist, and its files
    pages,      \* result of load_pdfs
    chunks,     \* result of chunk_docs (metadata is restamped in place)
    doc_docs,   \* result of build_doc_documents
    chunk_index,\* what is saved under settings.index_dir
    doc_index,  \* what is saved under settings.doc_index_dir
    \* ---- helper functions called on their own ----
    call,       \* the helper being called and its arguments
    ret         \* what the call returned

fvars == <<call, ret>>
svars == <<db, doc_db, loaded_db, pc, req, loc, resp,
           ipc, corpus, pages, chunks, doc_docs, chunk_index, doc_index>>
qvars == <<db, doc_db, loaded_db, pc, req, loc, resp, fvars>>
ivars == <<ipc, corpus, pages, chunks, doc_docs, chunk_index, doc_index, fvars>>
vars == <<db, doc_db, loaded_db, pc, req, loc, resp,
          ipc, corpus, pages, chunks, doc_docs, chunk_index, doc_index,
          call, ret>>

(***************************************************************************)
(* Bounds of the model and constants of the program.                       *)
(***************************************************************************)
MaxChunks == 3          \* payloads in the chunk index
MaxSegs == 2            \* payloads in the routing index
MaxK == 2               \* largest k a caller passes to ask
MaxPages == 3           \* pages the loader returns over the whole corpus
\* fetch_k is 500 in the source; it is scaled down together with MaxChunks so
\* that an index larger than fetch_k (the only way the similarity candidates
\* can miss chunks of the routed sources) stays within reach.
fetch_k == 2
\* settings.rag_top_k (RAG_TOP_K, default 8), scaled down likewise.
rag_top_k == 2
doc_route_top_n == 3
max_chars == 8000
SepLen == 5             \* len("\n---\n")
BlockOverhead == 19     \* len("Source: ") + len(" | Page: ") + two "\n"
SnippetLen == 240
max_pages == 3
doc_text_max_chars == 12000
routing_chunk_chars == 900
routing_overlap_chars == 100

Procs == {1}

Min(a, b) == IF a < b THEN a ELSE b
Range(s) == {s[i] : i \in 1..Len(s)}
SeqsUpTo(S, n) == UNION {[1..m -> S] : m \in 0..n}
Perms(n) == {f \in [1..n -> 1..n] : \A i, j \in 1..n : i # j => f[i] # f[j]}
\* Python's s[:n] for n >= 0.
Take(s, n) == SubSeq(s, 1, Min(n, Len(s)))

(***************************************************************************)
(* String functions.                                                       *)
(***************************************************************************)
IsSpace(c) == c = " "

LowerChar(c) == IF c = "A" THEN "a" ELSE IF c = "B" THEN "b" ELSE c

\* str.lower()
Lower(s) == [i \in 1..Len(s) |-> LowerChar(s[i])]

RECURSIVE LStrip(_)
LStrip(s) == IF s # <<>> /\ IsSpace(Head(s)) THEN LStrip(Tail(s)) ELSE s

RECURSIVE RStrip(_)
RStrip(s) ==
    IF s # <<>> /\ IsSpace(s[Len(s)]) THEN RStrip(SubSeq(s, 1, Len(s) - 1)) ELSE s

\* str.strip()
Strip(s) == RStrip(LStrip(s))

\* re.sub(r"\s+", " ", s)
RECURSIVE CollapseWs(_)
CollapseWs(s) ==
    IF s = <<>> THEN <<>>
    ELSE IF IsSpace(Head(s))
         THEN <<" ">> \o CollapseWs(LStrip(s))
         ELSE <<Head(s)>> \o CollapseWs(Tail(s))

\* loaders._source_id: the Canonicalizer.
_source_id(name) == CollapseWs(Lower(Strip(name)))

\* (d.metadata.get("source_id", "") or "").strip().lower()
SidOf(d) == Lower(Strip(d.source_id))

\* len(str(n)) for an int n >= 0
RECURSIVE DigitLen(_)
DigitLen(n) == IF n < 10 THEN 1 ELSE 1 + DigitLen(n \div 10)

(***************************************************************************)
(* Index payloads.  A payload is a langchain Document: page_content plus   *)
(* metadata.  The page metadata is a tagged value: an int, a string of     *)
(* digits, the string "?" (tag "q"), or absent/None.                       *)
(***************************************************************************)
PInt(n) == [t |-> "int", n |-> n]
PStr(n) == [t |-> "str", n |-> n]
PNone == [t |-> "none", n |-> 0]
PUnknown == [t |-> "q", n |-> 0]

Text(len, has_marker, marker) ==
    [len |-> len, has_marker |-> has_marker, marker |-> marker]

Payload(source_id, source, page, text) ==
    [source_id |-> source_id, source |-> source, page |-> page, text |-> text]

\* Chunk payloads an index on disk may hold: source ids that are canonical,
\* that need trimming and lowercasing, or that are missing; pages that are
\* ints, digit strings, or only found in the text, or nowhere; texts that
\* are short, that fill half the character budget, or that exceed it alone.
ChunkPool ==
    { Payload(<<"a">>, <<"a">>, PInt(1), Text(10, FALSE, 0)),
      Payload(<<"A", " ">>, <<"A", " ">>, PStr(1), Text(3979, FALSE, 0)),
      Payload(<<"a">>, <<"a">>, PNone, Text(3979, TRUE, 1)),
      Payload(<<"a">>, <<"a">>, PNone, Text(8000, FALSE, 0)),
      Payload(<<"b">>, <<"b">>, PInt(12), Text(3978, TRUE, 1)),
      Payload(<<>>, <<"a">>, PNone, Text(10, FALSE, 0)) }

\* Routing payloads: (source_id, source).
SegPool ==
    { [source_id |-> <<>>, source |-> <<"a">>],
      [source_id |-> <<"a">>, source |-> <<"a">>],
      [source_id |-> <<"B", " ">>, source |-> <<>>] }

\* FAISS.similarity_search(question, k): the k nearest payloads, nearest
\* first.  The question's embedding fixes the order of the whole index; the
\* search has no distance threshold.  Payloads are returned by reference, so
\* a hit is the position of the payload in the docstore.
similarity_search(ranking, k) == Take(ranking, k)

(***************************************************************************)
(* RAGPipeline.ask                                                         *)
(***************************************************************************)
\* _extract_page(d)
_extract_page(d) ==
    IF d.page.t = "int" THEN PInt(d.page.n)
    ELSE IF d.page.t = "str" THEN PInt(d.page.n)
    ELSE IF d.text.has_marker THEN PInt(d.text.marker)
    ELSE PUnknown

\* Stage A, the loop over the routing hits: [ids, display] after the first n.
RECURSIVE RoutedAfter(_, _)
RoutedAfter(hits, n) ==
    IF n = 0 THEN [ids |-> <<>>, display |-> <<>>]
    ELSE LET prev == RoutedAfter(hits, n - 1)
             d == doc_db[hits[n]]
             sid == SidOf(d)
             src == Strip(d.source)
         IN  IF sid = <<>> THEN prev
             ELSE IF sid \in Range(prev.ids) THEN prev
             ELSE [ids |-> Append(prev.ids, sid),
                   display |-> Append(prev.display,
                                      IF src # <<>> THEN src ELSE sid)]

\* The filter as it would be if it let every candidate through.
FilteredAll(candidates, routed_id_set) == candidates

\* Stage B filter: candidates whose source id is routed, in candidate order.
Filtered(candidates, routed_id_set) ==
    SelectSeq(candidates,
              LAMBDA c : SidOf(db[c]) # <<>> /\ SidOf(db[c]) \in routed_id_set)

\* The scan of self.db.docstore._dict.values()
RECURSIVE AllChunks(_, _)
AllChunks(n, routed_id_set) ==
    IF n = 0 THEN <<>>
    ELSE LET prev == AllChunks(n - 1, routed_id_set)
         IN  IF SidOf(db[n]) \in routed_id_set THEN Append(prev, n) ELSE prev

\* The cascade as it would be if the last resort forgot the [:top_k] slice.
CascadeUncut(candidates, filtered, routed_id_set, top_k) ==
    IF Len(filtered) = 0
    THEN LET all_chunks == AllChunks(Len(db), routed_id_set)
         IN  IF all_chunks # <<>>
             THEN [filtered |-> Take(all_chunks, top_k * 3), docs |-> <<>>,
                   docs_bound |-> FALSE, routing_used |-> TRUE]
             ELSE [filtered |-> filtered, docs |-> candidates,
                   docs_bound |-> TRUE, routing_used |-> FALSE]
    ELSE [filtered |-> filtered, docs |-> Take(filtered, top_k),
          docs_bound |-> TRUE, routing_used |-> TRUE]

\* The if/else of lines 137-157.  docs stays unassigned (bound = FALSE) on
\* the path that assigns filtered from the scan.
Cascade(candidates, filtered, routed_id_set, top_k) ==
    IF Len(filtered) = 0
    THEN LET all_chunks == AllChunks(Len(db), routed_id_set)
         IN  IF all_chunks # <<>>
             THEN [filtered |-> Take(all_chunks, top_k * 3), docs |-> <<>>,
                   docs_bound |-> FALSE, routing_used |-> TRUE]
             ELSE [filtered |-> filtered, docs |-> Take(candidates, top_k),
                   docs_bound |-> TRUE, routing_used |-> FALSE]
    ELSE [filtered |-> filtered, docs |-> Take(filtered, top_k),
          docs_bound |-> TRUE, routing_used |-> TRUE]

\* The key as it would be if it took the stored source_id as it is.
DedupKeyRawSid(d) == <<d.source_id, _extract_page(d)>>

\* key = (sid, page_val)
DedupKey(d) == <<SidOf(d), _extract_page(d)>>

\* len(str(page)) for the page read back from the metadata
PageStrLen(page) ==
    IF page.t \in {"int", "str"} THEN DigitLen(page.n)
    ELSE IF page.t = "q" THEN 1
    ELSE 4

\* len(f"Source: {src} | Page: {page}\n{text}\n")
BlockLen(d) == BlockOverhead + Len(d.source) + PageStrLen(d.page) + d.text.len

\* The loop of lines 179-193 from position j on.
RECURSIVE AssembleFrom(_, _, _)
AssembleFrom(deduped, j, acc) ==
    IF j > Len(deduped) THEN acc
    ELSE LET c == deduped[j]
             d == db[c]
             stub == [source |-> d.source, page |-> d.page, chunk_id |-> c - 1]
             appended ==
                 [acc EXCEPT !.sources = Append(@, stub),
                             !.snippets = Append(@,
                                 [source |-> d.source, page |-> d.page,
                                  chunk_id |-> c - 1,
                                  text_len |-> Min(d.text.len, SnippetLen)])]
         IN  IF acc.used_chars + BlockLen(d) > max_chars
             THEN appended
             ELSE AssembleFrom(deduped, j + 1,
                     [appended EXCEPT
                         !.used_chars = @ + BlockLen(d),
                         !.context_blocks =
                             Append(@, [chunk |-> c, len |-> BlockLen(d)])])

\* len("\n---\n".join(context_blocks))
RECURSIVE SumLen(_)
SumLen(blocks) ==
    IF blocks = <<>> THEN 0 ELSE Head(blocks).len + SumLen(Tail(blocks))

ContextLen(blocks) ==
    IF blocks = <<>> THEN 0 ELSE SumLen(blocks) + SepLen * (Len(blocks) - 1)

NoLoc ==
    [top_k |-> 0, routed_ids |-> <<>>, routed_docs_display |-> <<>>,
     candidates |-> <<>>, filtered |-> <<>>, docs |-> <<>>,
     docs_bound |-> FALSE, routing_used |-> FALSE,
     i |-> 1, seen |-> {}, deduped |-> <<>>,
     context_blocks |-> <<>>, sources |-> <<>>, snippets |-> <<>>,
     used_chars |-> 0]

NoReq == [crank |-> <<>>, rrank |-> <<>>, unrelated |-> FALSE]

NoResp ==
    [answer |-> "", routed_docs |-> <<>>, routing_used |-> FALSE,
     sources |-> <<>>, snippets |-> <<>>, retrieved_count |-> 0,
     used_count |-> 0]

\* What the completion service may answer: the refusal sentence the system
\* prompt prescribes, or anything else.
Answers == {"I do not know the answer based on the documents", "other"}

\* POST /ask reaches rag.ask(question), k = None (0 here); ask itself also
\* takes a k.  Lines 88-111: top_k and Stage A.
Route(p) ==
    /\ pc[p] = "idle"
    /\ \E crank \in Perms(Len(db)), rrank \in Perms(Len(doc_db)),
          unrelated \in BOOLEAN, k \in 0..MaxK :
          LET routed == similarity_search(rrank, doc_route_top_n)
              r == RoutedAfter(routed, Len(routed))
          IN  /\ req' = [req EXCEPT ![p] = [crank |-> crank, rrank |-> rrank,
                                           unrelated |-> unrelated]]
              /\ loc' = [loc EXCEPT ![p] =
                            [NoLoc EXCEPT
                                !.top_k = IF k # 0 THEN k ELSE rag_top_k,
                                !.routed_ids = r.ids,
                                !.routed_docs_display = r.display]]
    /\ pc' = [pc EXCEPT ![p] = "retrieve"]
    /\ resp' = [resp EXCEPT ![p] = NoResp]
    /\ UNCHANGED <<db, doc_db, loaded_db, ivars>>

\* Lines 113-157: Stage B and the fallback cascade.
Retrieve(p) ==
    /\ pc[p] = "retrieve"
    /\ LET routed_id_set == Range(loc[p].routed_ids)
           candidates == similarity_search(req[p].crank, fetch_k)
           filtered == Filtered(candidates, routed_id_set)
           c == Cascade(candidates, filtered, routed_id_set, loc[p].top_k)
       IN  loc' = [loc EXCEPT ![p] =
                      [@ EXCEPT !.candidates = candidates,
                                !.filtered = c.filtered,
                                !.docs = c.docs,
                                !.docs_bound = c.docs_bound,
                                !.routing_used = c.routing_used]]
    /\ pc' = [pc EXCEPT ![p] = "dedup"]
    /\ UNCHANGED <<db, doc_db, loaded_db, req, resp, ivars>>

\* Line 162, for d in docs, when no branch assigned docs: UnboundLocalError
\* leaves ask.
RaiseUnbound(p) ==
    /\ pc[p] = "dedup"
    /\ ~loc[p].docs_bound
    /\ pc' = [pc EXCEPT ![p] = "raised"]
    /\ UNCHANGED <<db, doc_db, loaded_db, req, loc, resp, ivars>>

\* Lines 162-170: one iteration of the deduplication loop.  d is the payload
\* object held by the docstore, and line 169 rebinds its metadata.
DedupStep(p) ==
    /\ pc[p] = "dedup"
    /\ loc[p].docs_bound
    /\ loc[p].i <= Len(loc[p].docs)
    /\ LET c == loc[p].docs[loc[p].i]
           d == db[c]
           page_val == _extract_page(d)
           key == DedupKey(d)
       IN  IF key \in loc[p].seen
           THEN /\ loc' = [loc EXCEPT ![p] = [@ EXCEPT !.i = @ + 1]]
                /\ db' = db
           ELSE /\ loc' = [loc EXCEPT ![p] =
                              [@ EXCEPT !.i = @ + 1,
                                        !.seen = @ \cup {key},
                                        !.deduped = Append(@, c)]]
                /\ db' = [db EXCEPT ![c] = [@ EXCEPT !.page = page_val]]
    /\ UNCHANGED <<doc_db, loaded_db, pc, req, resp, ivars>>

DedupEnd(p) ==
    /\ pc[p] = "dedup"
    /\ loc[p].docs_bound
    /\ loc[p].i > Len(loc[p].docs)
    /\ pc' = [pc EXCEPT ![p] = "assemble"]
    /\ UNCHANGED <<db, doc_db, loaded_db, req, loc, resp, ivars>>

\* Lines 172-195: context assembly.
Assemble(p) ==
    /\ pc[p] = "assemble"
    /\ LET acc == AssembleFrom(loc[p].deduped, 1,
                     [sources |-> <<>>, snippets |-> <<>>,
                      context_blocks |-> <<>>, used_chars |-> 0])
       IN  loc' = [loc EXCEPT ![p] =
                      [@ EXCEPT !.sources = acc.sources,
                                !.snippets = acc.snippets,
                                !.context_blocks = acc.context_blocks,
                                !.used_chars = acc.used_chars]]
    /\ pc' = [pc EXCEPT ![p] = "invoke"]
    /\ UNCHANGED <<db, doc_db, loaded_db, req, resp, ivars>>

\* Lines 206-218: the completion call and the returned dict.
Invoke(p) ==
    /\ pc[p] = "invoke"
    /\ \E answer \in Answers :
          resp' = [resp EXCEPT ![p] =
                      [answer |-> answer,
                       routed_docs |-> loc[p].routed_docs_display,
                       routing_used |-> loc[p].routing_used,
                       sources |-> loc[p].sources,
                       snippets |-> loc[p].snippets,
                       retrieved_count |-> Len(loc[p].candidates),
                       used_count |-> Len(loc[p].sources)]]
    /\ pc' = [pc EXCEPT ![p] = "done"]
    /\ UNCHANGED <<db, doc_db, loaded_db, req, loc, ivars>>

\* The request ends (response or error delivered); the thread takes the next.
Return(p) ==
    /\ pc[p] \in {"done", "raised"}
    /\ pc' = [pc EXCEPT ![p] = "idle"]
    /\ req' = [req EXCEPT ![p] = NoReq]
    /\ loc' = [loc EXCEPT ![p] = NoLoc]
    /\ resp' = [resp EXCEPT ![p] = NoResp]
    /\ UNCHANGED <<db, doc_db, loaded_db, ivars>>

(***************************************************************************)
(* Ingestion: load_pdfs, chunk_docs, build_doc_documents, build_index.     *)
(*                                                                         *)
(* A page's text is abstracted to its blank-line separated blocks.  Of a   *)
(* block the model keeps the label _classify_block gives it, the number of *)
(* fragments the text splitter cuts it into, and the number of characters  *)
(* it leaves in the routing text after strip_references and cleanup (0     *)
(* when every line of it is boilerplate).                                  *)
(***************************************************************************)
Block(kind, pieces, rchars) ==
    [kind |-> kind, pieces |-> pieces, rchars |-> rchars]

PagePool ==
    { <<>>,
      <<Block("table", 1, 500)>>,
      <<Block("text", 2, 1000)>>,
      <<Block("text", 1, 0)>>,
      <<Block("table", 1, 500), Block("text", 2, 1000)>>,
      <<Block("text", 1, 0), Block("caption", 1, 0)>> }

\* File names of the directory, as sorted(glob) orders them.
NameOrder == << <<" ", "A", " ", " ", "b">>, <<"B">> >>

\* The files a directory may hold from position i of NameOrder on, with at
\* most budget pages in all; a PDF may have no page.
RECURSIVE FileSeqs(_, _)
FileSeqs(i, budget) ==
    IF i > Len(NameOrder) THEN {<<>>}
    ELSE FileSeqs(i + 1, budget) \cup
         UNION { { <<[name |-> NameOrder[i], pages |-> ps]>> \o rest :
                     ps \in [1..n -> PagePool],
                     rest \in FileSeqs(i + 1, budget - n) } :
                 n \in 0..budget }

Corpora ==
    {[exists |-> FALSE, files |-> <<>>]} \cup
    {[exists |-> TRUE, files |-> fs] : fs \in FileSeqs(1, MaxPages)}

\* load_pdfs as it would be without the source_id line: the key is left
\* for build_index to stamp after the first index is built.
PageDocumentNoSid(name, sid, page_idx, blocks) ==
    [source |-> name, source_id |-> <<>>, page |-> page_idx, blocks |-> blocks]

\* loaders.load_pdfs, lines 25-29: the metadata stamped on a loaded page.
PageDocument(name, sid, page_idx, blocks) ==
    [source |-> name, source_id |-> sid, page |-> page_idx, blocks |-> blocks]

\* loaders.load_pdfs, lines 17-30: one Document per page of every file.
RECURSIVE LoadFiles(_)
LoadFiles(files) ==
    IF files = <<>> THEN <<>>
    ELSE LET file == Head(files)
             sid == _source_id(file.name)
         IN  [n \in 1..Len(file.pages) |->
                 PageDocument(file.name, sid, n - 1, file.pages[n])]
             \o LoadFiles(Tail(files))

IntactKinds == {"table", "code", "equation", "caption"}

\* chunk_docs as it would be if the branch of the intact blocks forgot
\* global_id += 1.
ChunkBlockNoIncr(doc, b, st) ==
    LET meta(id) == [source |-> doc.source, source_id |-> doc.source_id,
                     page |-> doc.page, chunk_type |-> b.kind,
                     chunk_id |-> id]
    IN  IF b.kind \in {"table", "code", "equation", "caption"}
        THEN [chunks |-> Append(st.chunks, meta(st.global_id)),
              global_id |-> st.global_id]
        ELSE [chunks |-> st.chunks \o
                         [j \in 1..b.pieces |-> meta(st.global_id + j - 1)],
              global_id |-> st.global_id + b.pieces]

\* chunking.chunk_docs, lines 121-138: one block of one page.
ChunkBlock(doc, b, st) ==
    LET meta(id) == [source |-> doc.source, source_id |-> doc.source_id,
                     page |-> doc.page, chunk_type |-> b.kind,
                     chunk_id |-> id]
    IN  IF b.kind \in IntactKinds
        THEN [chunks |-> Append(st.chunks, meta(st.global_id)),
              global_id |-> st.global_id + 1]
        ELSE [chunks |-> st.chunks \o
                         [j \in 1..b.pieces |-> meta(st.global_id + j - 1)],
              global_id |-> st.global_id + b.pieces]

RECURSIVE ChunkBlocks(_, _, _)
ChunkBlocks(doc, blocks, st) ==
    IF blocks = <<>> THEN st
    ELSE ChunkBlocks(doc, Tail(blocks), ChunkBlock(doc, Head(blocks), st))

\* chunking.chunk_docs, lines 107-140; a page with no text is skipped.
RECURSIVE ChunkDocsFrom(_, _)
ChunkDocsFrom(docs, st) ==
    IF docs = <<>> THEN st
    ELSE LET doc == Head(docs)
         IN  IF doc.blocks = <<>>
             THEN ChunkDocsFrom(Tail(docs), st)
             ELSE ChunkDocsFrom(Tail(docs), ChunkBlocks(doc, doc.blocks, st))

chunk_docs(docs) == ChunkDocsFrom(docs, [chunks |-> <<>>, global_id |-> 0]).chunks

\* ingest.split_with_overlap on a text of len characters: the windows
\* [start, stop) it cuts.
RECURSIVE WindowsFrom(_, _, _, _)
WindowsFrom(len, size, step, start) ==
    IF start >= len THEN <<>>
    ELSE <<[start |-> start, stop |-> Min(start + size, len)]>> \o
         (IF start + size >= len THEN <<>>
          ELSE WindowsFrom(len, size, step, start + step))

\* The splitter as it would be if it took the overlap as given.
split_with_overlapUnclamped(len, size, overlap) ==
    IF len = 0 THEN <<>>
    ELSE IF size <= 0 THEN <<[start |-> 0, stop |-> len]>>
    ELSE LET step == IF size - overlap > 1 THEN size - overlap ELSE 1
         IN  WindowsFrom(len, size, step, 0)

split_with_overlap(len, size, overlap) ==
    IF len = 0 THEN <<>>
    ELSE IF size <= 0 THEN <<[start |-> 0, stop |-> len]>>
    ELSE LET ov == IF size > 1
                   THEN (IF Min(overlap, size - 1) > 0
                         THEN Min(overlap, size - 1) ELSE 0)
                   ELSE 0
             step == IF size - ov > 1 THEN size - ov ELSE 1
         IN  WindowsFrom(len, size, step, 0)

RECURSIVE RoutingChars(_)
RoutingChars(blocks) ==
    IF blocks = <<>> THEN 0 ELSE Head(blocks).rchars + RoutingChars(Tail(blocks))

RECURSIVE MergedChars(_)
MergedChars(ds) ==
    IF ds = <<>> THEN 0 ELSE RoutingChars(Head(ds).blocks) + MergedChars(Tail(ds))

\* by_source keys in insertion order.
RECURSIVE SourcesOf(_)
SourcesOf(docs) ==
    IF docs = <<>> THEN <<>>
    ELSE LET rest == SourcesOf(SubSeq(docs, 1, Len(docs) - 1))
             src == docs[Len(docs)].source
         IN  IF src \in Range(rest) THEN rest ELSE Append(rest, src)

\* ingest.build_doc_documents, lines 131-164, for one source.  load_pdfs
\* returns a source's pages in page order, which sorted() keeps.
RoutingDocsOf(src, docs, max_chars_, max_pages_, size, overlap) ==
    LET ds == Take(SelectSeq(docs, LAMBDA d : d.source = src), max_pages_)
        merged == Min(MergedChars(ds), max_chars_)
        parts == split_with_overlap(merged, size, overlap)
    IN  [i \in 1..Len(parts) |->
            [source |-> src, source_id |-> _source_id(src),
             route_pages_used |-> Len(ds), route_part |-> i - 1,
             route_parts_total |-> Len(parts)]]

RECURSIVE RoutingDocsFrom(_, _, _, _, _, _)
RoutingDocsFrom(srcs, docs, max_chars_, max_pages_, size, overlap) ==
    IF srcs = <<>> THEN <<>>
    ELSE RoutingDocsOf(Head(srcs), docs, max_chars_, max_pages_, size, overlap)
         \o RoutingDocsFrom(Tail(srcs), docs, max_chars_, max_pages_, size, overlap)

build_doc_documents(docs, max_chars_, max_pages_, size, overlap) ==
    RoutingDocsFrom(SourcesOf(docs), docs, max_chars_, max_pages_, size, overlap)

\* load_pdfs, lines 11-34.
LoadPdfs ==
    /\ ipc = "start"
    /\ IF ~corpus.exists
       THEN /\ ipc' = "aborted"
            /\ pages' = pages
       ELSE LET docs == LoadFiles(corpus.files)
            IN  IF docs = <<>>
                THEN /\ ipc' = "aborted"
                     /\ pages' = pages
                ELSE /\ ipc' = "loaded"
                     /\ pages' = docs
    /\ UNCHANGED <<corpus, chunks, doc_docs, chunk_index, doc_index, qvars>>

\* build_index, lines 20-24.
ChunkDocs ==
    /\ ipc = "loaded"
    /\ chunks' = chunk_docs(pages)
    /\ ipc' = "chunked"
    /\ UNCHANGED <<corpus, pages, doc_docs, chunk_index, doc_index, qvars>>

\* FAISS.from_documents(items) followed by save_local(dir).  from_documents
\* sizes its index from the first embedding, so it raises on an empty list.
SaveIndex(items) == [saved |-> TRUE, items |-> items]

\* build_index, lines 25-26.
SaveChunkIndexFirst ==
    /\ ipc = "chunked"
    /\ IF chunks = <<>>
       THEN /\ ipc' = "aborted"
            /\ chunk_index' = chunk_index
       ELSE /\ ipc' = "saved_first"
            /\ chunk_index' = SaveIndex(chunks)
    /\ UNCHANGED <<corpus, pages, chunks, doc_docs, doc_index, qvars>>

\* build_index, lines 30-32.
Restamp ==
    /\ ipc = "saved_first"
    /\ chunks' = [i \in 1..Len(chunks) |->
                     [chunks[i] EXCEPT !.source_id = _source_id(chunks[i].source)]]
    /\ ipc' = "stamped"
    /\ UNCHANGED <<corpus, pages, doc_docs, chunk_index, doc_index, qvars>>

\* build_index, lines 34-35.
SaveChunkIndexSecond ==
    /\ ipc = "stamped"
    /\ chunk_index' = SaveIndex(chunks)
    /\ ipc' = "saved_second"
    /\ UNCHANGED <<corpus, pages, chunks, doc_docs, doc_index, qvars>>

\* build_index, lines 40-46.
BuildDocDocuments ==
    /\ ipc = "saved_second"
    /\ doc_docs' = build_doc_documents(pages, doc_text_max_chars, max_pages,
                                       routing_chunk_chars, routing_overlap_chars)
    /\ ipc' = "routing_built"
    /\ UNCHANGED <<corpus, pages, chunks, chunk_index, doc_index, qvars>>

\* build_index, lines 47-48.
SaveDocIndex ==
    /\ ipc = "routing_built"
    /\ IF doc_docs = <<>>
       THEN /\ ipc' = "aborted"
            /\ doc_index' = doc_index
       ELSE /\ ipc' = "done"
            /\ doc_index' = SaveIndex(doc_docs)
    /\ UNCHANGED <<corpus, pages, chunks, doc_docs, chunk_index, qvars>>

\* The query service is not running while the corpus is ingested.
\* No helper is being called on its own.
NoCall == [fn |-> "none"]
NoRet == [returned |-> FALSE]
FnIdle ==
    /\ call = NoCall
    /\ ret = NoRet

QueryIdle ==
    /\ db = <<>>
    /\ doc_db = <<>>
    /\ loaded_db = <<>>
    /\ pc = [p \in Procs |-> "idle"]
    /\ req = [p \in Procs |-> NoReq]
    /\ loc = [p \in Procs |-> NoLoc]
    /\ resp = [p \in Procs |-> NoResp]

\* build_index starts on any corpus directory, with both index directories
\* empty.
InitIngest ==
    /\ ipc = "start"
    /\ corpus \in Corpora
    /\ pages = <<>>
    /\ chunks = <<>>
    /\ doc_docs = <<>>
    /\ chunk_index = [saved |-> FALSE, items |-> <<>>]
    /\ doc_index = [saved |-> FALSE, items |-> <<>>]
    /\ QueryIdle
    /\ FnIdle

NextIngest ==
    \/ LoadPdfs
    \/ ChunkDocs
    \/ SaveChunkIndexFirst
    \/ Restamp
    \/ SaveChunkIndexSecond
    \/ BuildDocDocuments
    \/ SaveDocIndex

SpecIngest == InitIngest /\ [][NextIngest]_vars

\* Ingestion at rest, while queries are served.
IngestIdle ==
    /\ ipc = "start"
    /\ corpus = [exists |-> FALSE, files |-> <<>>]
    /\ pages = <<>>
    /\ chunks = <<>>
    /\ doc_docs = <<>>
    /\ chunk_index = [saved |-> FALSE, items |-> <<>>]
    /\ doc_index = [saved |-> FALSE, items |-> <<>>]

\* RAGPipeline.__init__: both indexes loaded from disk, whatever they hold.
Init ==
    /\ db \in SeqsUpTo(ChunkPool, MaxChunks)
    /\ doc_db \in SeqsUpTo(SegPool, MaxSegs)
    /\ loaded_db = db
    /\ pc = [p \in Procs |-> "idle"]
    /\ req = [p \in Procs |-> NoReq]
    /\ loc = [p \in Procs |-> NoLoc]
    /\ resp = [p \in Procs |-> NoResp]
    /\ IngestIdle
    /\ FnIdle

Next ==
    \E p \in Procs :
        \/ Route(p)
        \/ Retrieve(p)
        \/ RaiseUnbound(p)
        \/ DedupStep(p)
        \/ DedupEnd(p)
        \/ Assemble(p)
        \/ Invoke(p)
        \/ Return(p)

Spec == Init /\ [][Next]_vars

(***************************************************************************)
(* Properties of the query pipeline, under Spec.                           *)
(***************************************************************************)
AfterCascade == {"dedup", "assemble", "invoke", "done", "raised"}
AfterDedup == {"assemble", "invoke", "done"}
AfterAssembly == {"invoke", "done"}

\* C1: whatever the question and the two indexes hold, the retrieval cascade
\* ends with a defined chunk list and a defined routing_used flag, and ask
\* returns a response instead of raising, in each of its three branches.
C1_CascadeAlwaysYieldsChunks ==
    \A p \in Procs :
        /\ pc[p] \in AfterCascade => loc[p].docs_bound
        /\ pc[p] # "raised"

\* The routing hits of the running ask carry no usable source key.
ZeroUsableKeys(p) ==
    \A h \in Range(Take(req[p].rrank, doc_route_top_n)) :
        Strip(doc_db[h].source_id) = <<>>

\* C2: when routing yields no usable source key, ask does not raise,
\* routing_used is false, and the chunks it uses are the first
\* min(top_k, number of candidates) similarity candidates, in order.
C2_NoRoutingFallsBackToCandidates ==
    \A p \in Procs :
        (pc[p] \in AfterCascade /\ ZeroUsableKeys(p)) =>
            LET cands == Take(req[p].crank, fetch_k)
            IN  /\ pc[p] # "raised"
                /\ loc[p].docs_bound
                /\ ~loc[p].routing_used
                /\ loc[p].docs = SubSeq(cands, 1, Min(loc[p].top_k, Len(cands)))
                /\ pc[p] = "done" => ~resp[p].routing_used

\* C2 witness: a finished ask whose routing hits all lack a source id, and
\* whose candidate list is cut to top_k.
C2_Witness ==
    \E p \in Procs :
        /\ pc[p] = "done"
        /\ doc_db # <<>>
        /\ ZeroUsableKeys(p)
        /\ Len(loc[p].candidates) > loc[p].top_k
        /\ Len(loc[p].docs) = loc[p].top_k

\* The pair (source key, effective page) of a payload as loaded: the page is
\* the numeric page metadata, else the page marker of the text, else unknown.
EffKey(c) ==
    <<Lower(Strip(c.source_id)),
      IF c.page.t \in {"int", "str"} THEN <<"page", c.page.n>>
      ELSE IF c.text.has_marker THEN <<"page", c.text.marker>>
      ELSE <<"unknown", 0>> >>

PosIn(s, x) == CHOOSE i \in 1..Len(s) : s[i] = x

\* C3: no two chunks that reach context assembly share the pair
\* (source key, effective page); of the retrieved chunks with one pair exactly
\* the highest-ranked is kept, in rank order; so no two context blocks and no
\* two entries of sources share a pair.
C3_DedupByKeyAndPage ==
    \A p \in Procs :
        pc[p] \in AfterDedup =>
            LET docs == loc[p].docs
                ds == loc[p].deduped
                key(c) == EffKey(loaded_db[c])
            IN  /\ \A i, j \in 1..Len(ds) : i < j => key(ds[i]) # key(ds[j])
                /\ \A i \in 1..Len(docs) :
                      (docs[i] \in Range(ds)) <=>
                          (\A j \in 1..(i - 1) : key(docs[j]) # key(docs[i]))
                /\ \A i, j \in 1..Len(ds) :
                      i < j => PosIn(docs, ds[i]) < PosIn(docs, ds[j])
                /\ \A i, j \in 1..Len(loc[p].sources) :
                      i < j => key(loc[p].sources[i].chunk_id + 1)
                                  # key(loc[p].sources[j].chunk_id + 1)
                /\ \A i, j \in 1..Len(loc[p].context_blocks) :
                      i < j => key(loc[p].context_blocks[i].chunk)
                                  # key(loc[p].context_blocks[j].chunk)

\* C3 witness: a finished ask that retrieved two chunks of one source and
\* page, the page of one read from its metadata and of the other from a
\* digit string or its text, and kept one of them.
C3_Witness ==
    \E p \in Procs :
        /\ pc[p] = "done"
        /\ Len(loc[p].docs) = 2
        /\ Len(loc[p].deduped) = 1
        /\ loaded_db[loc[p].docs[1]].page # loaded_db[loc[p].docs[2]].page
        /\ Len(resp[p].sources) = 1

\* C4: the context string sent to the completion service, separators
\* included, is at most max_chars characters long.
C4_ContextWithinBudget ==
    \A p \in Procs :
        pc[p] \in AfterAssembly =>
            ContextLen(loc[p].context_blocks) <= max_chars

\* C5: sources and snippets are parallel to the context blocks used: same
\* length, entry i describes block i, and used_count is the number of blocks.
C5_SourcesParallelToBlocks ==
    \A p \in Procs :
        pc[p] \in AfterAssembly =>
            LET blocks == loc[p].context_blocks
            IN  /\ Len(loc[p].sources) = Len(blocks)
                /\ Len(loc[p].snippets) = Len(blocks)
                /\ \A i \in 1..Len(blocks) :
                      /\ i <= Len(loc[p].sources)
                      /\ loc[p].sources[i].chunk_id + 1 = blocks[i].chunk
                      /\ loc[p].snippets[i].chunk_id + 1 = blocks[i].chunk
                /\ pc[p] = "done" => resp[p].used_count = Len(blocks)

\* C6: no ask changes a stored payload: the chunk index is at all times what
\* was loaded, page metadata included.
C6_IndexesNeverChange == db = loaded_db

\* C10: an ask that answers an unrelated question with the refusal sentence
\* returns an empty citation list.
C10_RefusalHasNoSources ==
    \A p \in Procs :
        (/\ pc[p] = "done"
         /\ req[p].unrelated
         /\ resp[p].answer = "I do not know the answer based on the documents")
            => resp[p].sources = <<>>

(***************************************************************************)
(* Properties of ingestion, under SpecIngest.                              *)
(***************************************************************************)
\* A key that is trimmed, lowercase, and has no run of whitespace.
IsCanonical(s) ==
    /\ s # <<>> => ~IsSpace(s[1]) /\ ~IsSpace(s[Len(s)])
    /\ \A i \in 1..Len(s) : s[i] \notin {"A", "B"}
    /\ \A i \in 1..(Len(s) - 1) : ~(IsSpace(s[i]) /\ IsSpace(s[i + 1]))

Keyed(items) ==
    \A i \in 1..Len(items) :
        /\ items[i].source_id # <<>>
        /\ items[i].source_id = _source_id(items[i].source)
        /\ IsCanonical(items[i].source_id)

\* C7: every chunk of every chunk index build_index saves, and every routing
\* segment of the routing index it saves, was embedded carrying a source key
\* equal to the canonical form of its source; none is saved with the key
\* missing.
C7_SavedItemsCarrySourceKey ==
    /\ chunk_index.saved => Keyed(chunk_index.items)
    /\ doc_index.saved => Keyed(doc_index.items)

\* C7 witness: the chunk index saved by the first from_documents, before the
\* loop of build_index stamps the keys, holding a chunk whose key differs
\* from its source name.
C7_Witness ==
    /\ ipc = "saved_first"
    /\ chunk_index.saved
    /\ \E i \in 1..Len(chunk_index.items) :
          chunk_index.items[i].source_id # chunk_index.items[i].source

\* C8: the chunk ids of one chunk_docs run are 0, 1, 2, ... in emission
\* order, hence distinct and strictly increasing, across pages, sources and
\* block kinds; skipped pages consume no id.
C8_ChunkIdsCountUp ==
    \A i \in 1..Len(chunks) : chunks[i].chunk_id = i - 1

\* C8 witness: a run over two sources, with an empty page, that emitted
\* intact chunks and fragments of a split block.
C8_Witness ==
    /\ ipc = "chunked"
    /\ \E d \in Range(pages) : d.blocks = <<>>
    /\ \E i, j \in 1..Len(chunks) :
          /\ i < j
          /\ chunks[i].source # chunks[j].source
          /\ chunks[j].chunk_type \in IntactKinds
    /\ \E i \in 1..(Len(chunks) - 1) :
          /\ chunks[i].chunk_type = "text"
          /\ chunks[i + 1].chunk_type = "text"
          /\ chunks[i].page = chunks[i + 1].page

\* C9: a build that aborts has written neither index.
C9_AbortWritesNothing ==
    ipc = "aborted" => (~chunk_index.saved /\ ~doc_index.saved)

(***************************************************************************)
(* Routing-assisted responses, under Spec.                                 *)
(***************************************************************************)
\* The source keys the routing hits of the running ask carry.
RoutedKeys(p) ==
    {Lower(Strip(doc_db[h].source_id)) :
        h \in Range(Take(req[p].rrank, doc_route_top_n))} \ {<<>>}

\* C13: in every response with routing_used true the routed set is not
\* empty, every entry of sources is a chunk whose source key is routed, and
\* at most top_k chunks are used.
C13_RoutedResponsesUseRoutedChunks ==
    \A p \in Procs :
        (pc[p] = "done" /\ resp[p].routing_used) =>
            /\ RoutedKeys(p) # {}
            /\ \A i \in 1..Len(resp[p].sources) :
                  Lower(Strip(loaded_db[resp[p].sources[i].chunk_id + 1].source_id))
                      \in RoutedKeys(p)
            /\ Len(resp[p].sources) <= loc[p].top_k
            /\ resp[p].used_count <= loc[p].top_k

\* C13 witness: a routing-assisted response that cites a chunk, from a
\* retrieval whose filter dropped a candidate of another source.
C13_Witness ==
    \E p \in Procs :
        /\ pc[p] = "done"
        /\ resp[p].routing_used
        /\ resp[p].sources # <<>>
        /\ Len(loc[p].filtered) < Len(loc[p].candidates)

(***************************************************************************)
(* split_with_overlap called on its own: SpecSplit.                        *)
(***************************************************************************)
MaxTextLen == 5         \* characters of the text to split
MaxSize == 3            \* largest window size tried
MaxExcess == 1          \* how far the overlap leaves the range 0..size

\* The parts split_with_overlap returns for a text: each window of the
\* stripped text, stripped, the empty ones dropped.
split_with_overlap_parts(text, size, overlap) ==
    LET t == Strip(text)
        ws == split_with_overlap(Len(t), size, overlap)
        slices == [i \in 1..Len(ws) |->
                      Strip(SubSeq(t, ws[i].start + 1, ws[i].stop))]
    IN  [windows |-> ws,
         parts |-> SelectSeq(slices, LAMBDA c : c # <<>>)]

\* build_doc_documents hands over the merged text of a file, stripped and
\* not empty; the size and the overlap are its own arguments, any integers.
MergedTexts ==
    {t \in SeqsUpTo({"x", " "}, MaxTextLen) : t # <<>> /\ Strip(t) = t}

InitSplit ==
    /\ call \in [fn : {"split_with_overlap"},
                 text : MergedTexts,
                 size : 0..MaxSize,
                 overlap : (0 - MaxExcess)..(MaxSize + MaxExcess)]
    /\ ret = NoRet
    /\ QueryIdle
    /\ IngestIdle

SplitWithOverlap ==
    /\ call.fn = "split_with_overlap"
    /\ ~ret.returned
    /\ LET r == split_with_overlap_parts(call.text, call.size, call.overlap)
       IN  ret' = [returned |-> TRUE, windows |-> r.windows, parts |-> r.parts]
    /\ UNCHANGED <<call, svars>>

NextSplit == SplitWithOverlap

SpecSplit == InitSplit /\ [][NextSplit]_vars

\* The overlap the claim expects after clamping into 0..size-1.
ClampedOverlap(size, overlap) ==
    IF overlap < 0 THEN 0
    ELSE IF overlap >= size THEN size - 1
    ELSE overlap

\* C11: for a non-empty text and a size of at least 1, whatever the overlap,
\* the call returns; the clamped overlap lies in 0..size-1 and the step
\* size - overlap is at least 1; the windows start at 0, each begins one
\* step after the one before, none is longer than size, the last ends at the
\* end of the text, and every character position lies in some window.
C11_WindowsCoverText ==
    (ret.returned /\ call.fn = "split_with_overlap" /\ call.size >= 1) =>
        LET n == Len(call.text)
            ws == ret.windows
            ov == ClampedOverlap(call.size, call.overlap)
            step == call.size - ov
        IN  /\ 0 <= ov /\ ov < call.size /\ step >= 1
            /\ Len(ws) >= 1 /\ Len(ws) <= n
            /\ ws[1].start = 0
            /\ ws[Len(ws)].stop = n
            /\ \A i \in 1..Len(ws) :
                  /\ ws[i].start < ws[i].stop
                  /\ ws[i].stop - ws[i].start <= call.size
            /\ \A i \in 1..(Len(ws) - 1) :
                  ws[i + 1].start = ws[i].start + step
            /\ \A pos \in 1..n :
                  \E i \in 1..Len(ws) :
                      ws[i].start < pos /\ pos <= ws[i].stop
            /\ Len(ret.parts) <= Len(ws)
            /\ \A j \in 1..Len(ret.parts) :
                  Len(ret.parts[j]) \in 1..call.size

\* C11 witness: a negative overlap and a window size of at least 2 on a text
\* that needs three windows, one of them all whitespace.
C11_Witness ==
    /\ ret.returned
    /\ call.fn = "split_with_overlap"
    /\ call.size >= 2
    /\ call.overlap < 0
    /\ Len(ret.windows) >= 3
    /\ Len(ret.parts) < Len(ret.windows)

(***************************************************************************)
(* _classify_block called on its own: SpecClassify.  A block is the list   *)
(* of its lines (str.splitlines), a line a sequence of tokens: single      *)
(* characters, whole words, and "w800" for a run of 800 word characters.   *)
(***************************************************************************)
MaxLines == 7           \* lines of a block built from the short line pool
FullLines == 3          \* lines of a block built from the full line pool

CaptionWords == {"Figure", "Fig.", "Table"}
CodeKeywords ==
    {"SELECT", "WITH", "INSERT", "UPDATE", "DELETE", "CREATE", "DROP", "ALTER"}
DigitTokens == {"1"}
EquationOps == {"=", "+", "-", "*", "/"}
\* Tokens whose first character is matched by \w.
WordTokens == {"x", "w800"} \cup DigitTokens \cup CaptionWords \cup CodeKeywords
\* \s
IsWs(c) == c \in {" ", "\n"}

TokLen(t) ==
    IF t = "w800" THEN 800
    ELSE IF t \in {"SELECT", "INSERT", "UPDATE", "DELETE", "CREATE", "Figure"} THEN 6
    ELSE IF t \in {"ALTER", "Table"} THEN 5
    ELSE IF t \in {"WITH", "DROP", "Fig."} THEN 4
    ELSE 1

\* "\n".join(lines): the block as one string.
RECURSIVE JoinLines(_)
JoinLines(lines) ==
    IF lines = <<>> THEN <<>>
    ELSE IF Len(lines) = 1 THEN lines[1]
    ELSE lines[1] \o <<"\n">> \o JoinLines(Tail(lines))

\* len(b)
RECURSIVE CharLen(_)
CharLen(b) == IF b = <<>> THEN 0 ELSE TokLen(Head(b)) + CharLen(Tail(b))

\* _CAPTION_RE.match(b): a caption word, whitespace, digits, a colon or a
\* full stop, whitespace, then anything up to the end without a newline.
CaptionMatch(b) ==
    /\ b # <<>>
    /\ b[1] \in CaptionWords
    /\ \E i \in 2..Len(b) : \E j \in (i + 1)..Len(b) : \E k \in (j + 2)..Len(b) :
          /\ \A t \in 2..i : IsWs(b[t])
          /\ \A t \in (i + 1)..j : b[t] \in DigitTokens
          /\ b[j + 1] \in {":", "."}
          /\ \A t \in (j + 2)..k : IsWs(b[t])
          /\ \A t \in (k + 1)..Len(b) : b[t] # "\n"

\* len(re.findall(r"\s{2,}", ln)): the maximal whitespace runs of length 2
\* or more.
SpaceRuns(ln) ==
    Cardinality({i \in 1..(Len(ln) - 1) :
                    /\ IsWs(ln[i])
                    /\ IsWs(ln[i + 1])
                    /\ (i = 1 \/ ~IsWs(ln[i - 1]))})

\* ("|" in ln) or (len(re.findall(r"\s{2,}", ln)) >= 2)
IsTabular(ln) == "|" \in Range(ln) \/ SpaceRuns(ln) >= 2

\* _CODE_HINT_RE.match(ln) or ln.strip().endswith(";")
IsCodeLine(ln) ==
    LET l == LStrip(ln)
        s == Strip(ln)
    IN  \/ /\ l # <<>>
           /\ l[1] \in CodeKeywords
           /\ (Len(l) = 1 \/ l[2] \notin WordTokens)
        \/ /\ s # <<>>
           /\ s[Len(s)] = ";"

TabularLines(lines) == Cardinality({i \in 1..Len(lines) : IsTabular(lines[i])})
CodeLines(lines) == Cardinality({i \in 1..Len(lines) : IsCodeLine(lines[i])})

\* _EQUATION_HINT_RE.search(b): an operator, optional whitespace, then a
\* word character (the blocks here hold no bracket and no backslash).
EquationHint(b) ==
    \E i \in 1..Len(b) : \E j \in (i + 1)..Len(b) :
        /\ b[i] \in EquationOps
        /\ \A t \in (i + 1)..(j - 1) : IsWs(b[t])
        /\ b[j] \in WordTokens

\* The classifier as it would be if a table needed half the lines and no
\* more.
_classify_blockHalf(lines) ==
    LET b == JoinLines(lines)
    IN  IF lines = <<>> THEN "empty"
        ELSE IF CaptionMatch(b) THEN "caption"
        ELSE IF 2 * TabularLines(lines) >= Len(lines) THEN "table"
        ELSE IF CodeLines(lines) >= 2 THEN "code"
        ELSE IF EquationHint(b) /\ CharLen(b) < 800 THEN "equation"
        ELSE "text"

_classify_block(lines) ==
    LET b == JoinLines(lines)
        half == Len(lines) \div 2
    IN  IF lines = <<>> THEN "empty"
        ELSE IF CaptionMatch(b) THEN "caption"
        ELSE IF TabularLines(lines) >= (IF half > 3 THEN half ELSE 3) THEN "table"
        ELSE IF CodeLines(lines) >= 2 THEN "code"
        ELSE IF EquationHint(b) /\ CharLen(b) < 800 THEN "equation"
        ELSE "text"

\* Lines a block can hold.
LinePool ==
    { <<"x">>,
      <<"x", "|", "x">>,
      <<"x", "|", "x", ";">>,
      <<"x", " ", " ", "x", " ", " ", "x">>,
      <<"x", " ", " ", "x">>,
      <<"SELECT", " ", "x">>,
      <<"x", ";">>,
      <<"x", " ", "=", " ", "x">>,
      <<"Table", " ", "1", ":", " ", "x">>,
      <<"Table", " ", "1", ":">>,
      <<"w800">> }
ShortLinePool == { <<"x">>, <<"x", "|", "x">>, <<"x", ";">> }

\* chunk_docs hands over blocks that are stripped and not empty: up to
\* FullLines lines of any kind, or up to MaxLines of the short pool.
Blocks ==
    (SeqsUpTo(LinePool, FullLines) \cup SeqsUpTo(ShortLinePool, MaxLines))
        \ {<<>>}

InitClassify ==
    /\ call \in [fn : {"_classify_block"}, block : Blocks]
    /\ ret = NoRet
    /\ QueryIdle
    /\ IngestIdle

ClassifyBlock ==
    /\ call.fn = "_classify_block"
    /\ ~ret.returned
    /\ ret' = [returned |-> TRUE, label |-> _classify_block(call.block)]
    /\ UNCHANGED <<call, svars>>

NextClassify == ClassifyBlock

SpecClassify == InitClassify /\ [][NextClassify]_vars

\* A call of _classify_block has returned for a block that is no caption.
ClassifiedNonCaption ==
    /\ ret.returned
    /\ call.fn = "_classify_block"
    /\ ~CaptionMatch(JoinLines(call.block))

\* The labels after table are decided in the order code, equation, text,
\* and a caption is a caption whatever else it looks like.
LabelPrecedence ==
    (ret.returned /\ call.fn = "_classify_block") =>
        LET b == JoinLines(call.block)
        IN  /\ ret.label \in {"caption", "table", "code", "equation", "text"}
            /\ (ret.label = "caption") <=> CaptionMatch(b)
            /\ ret.label \notin {"caption", "table"} =>
                  ((ret.label = "code") <=> CodeLines(call.block) >= 2)
            /\ ret.label \notin {"caption", "table", "code"} =>
                  ((ret.label = "equation") <=>
                      (EquationHint(b) /\ CharLen(b) < 800))

\* C12 as stated: a block that is no caption is a table exactly when at
\* least half of its lines are tabular, whatever the number of lines, and
\* the labels follow the precedence caption, table, code, equation, text.
C12_TableIffHalfTabular ==
    /\ ClassifiedNonCaption =>
          ((ret.label = "table") <=>
              2 * TabularLines(call.block) >= Len(call.block))
    /\ LabelPrecedence

\* C12 amended: a block that is no caption is a table exactly when its
\* tabular lines number at least 3 and at least half the number of lines
\* rounded down, and the labels follow the precedence caption, table, code,
\* equation, text.
C12_TableIffThreeAndHalfTabular ==
    /\ ClassifiedNonCaption =>
          ((ret.label = "table") <=>
              /\ TabularLines(call.block) >= 3
              /\ TabularLines(call.block) >= Len(call.block) \div 2)
    /\ LabelPrecedence

\* C12 witness: a block of two lines, both tabular and both ending in a
\* semicolon, that is labelled code and not table.
C12_Witness ==
    /\ ClassifiedNonCaption
    /\ Len(call.block) = 2
    /\ TabularLines(call.block) = 2
    /\ ret.label = "code"
====
